---- MODULE Spec2Model ----
(***************************************************************************)
(* A model of server.js of agent-tools-server: the URL normaliser, the two *)
(* HTML extractors, the spreadsheet appender, the page renderer with its   *)
(* shared browser, and the four POST handlers.                             *)
(*                                                                         *)
(* JavaScript strings whose characters the code inspects (URLs, titles,    *)
(* the credential) are sequences of one-character strings.  The value      *)
(* `undefined` (an absent attribute, an absent body field, an unset        *)
(* environment variable) is the sentinel Undefined.                        *)
(***************************************************************************)
EXTENDS Integers, Sequences, FiniteSets, TLC

VARIABLES
  BASE_URL,      \* process.env.BASE_URL
  GSA_BASE64,    \* process.env.GSA_BASE64
  SHEET_ID,      \* process.env.SHEET_ID
  SHEET_NAME,    \* process.env.SHEET_NAME
  call,          \* the last direct call of a pure function, with its result
  browser,       \* fetchHTML.browser: 0 while unset, else the browser's id
  launched,      \* ids of the browsers puppeteer.launch has started
  pages,         \* the open pages: records [owner, on]
  procs,         \* the request under way in each request slot
  sheetClients,  \* how many API clients initSheets has constructed
  appendLog,     \* the values.append calls sent to the spreadsheet API
  resp           \* the response the server sent last

vars == <<BASE_URL, GSA_BASE64, SHEET_ID, SHEET_NAME, call, browser, launched,
          pages, procs, sheetClients, appendLog, resp>>

envVars == <<BASE_URL, GSA_BASE64, SHEET_ID, SHEET_NAME>>
serverVars == <<browser, launched, pages, procs, sheetClients, appendLog, resp>>

-----------------------------------------------------------------------------
(* Bounds *)

MaxAnchors == 3   \* anchors in one document given to extractAlbums
MaxImgs == 3      \* img elements in one document given to extractImages
NumSlots == 1     \* requests under way at once in the whole server
NumRenders == 2   \* fetch_html requests under way at once in the renderer alone
MaxAppends == 2   \* sheets_append_rows requests that reach appendRows

-----------------------------------------------------------------------------
(* JavaScript values and string primitives *)

Undefined == <<"undefined">>

\* JavaScript truthiness of a value that is a string, null or undefined
Truthy(v) == v # Undefined /\ v # <<"null">> /\ v # <<>>

\* a || b
OrElse(a, b) == IF Truthy(a) THEN a ELSE b

\* String.prototype.startsWith
StartsWith(s, p) == Len(s) >= Len(p) /\ SubSeq(s, 1, Len(p)) = p

\* an unanchored RegExp.test of a literal: the literal occurs in s
Contains(s, sub) ==
  \E i \in 1..(Len(s) - Len(sub) + 1) : SubSeq(s, i, i + Len(sub) - 1) = sub

UpperToLower ==
  [c \in {"H", "T", "P", "S"} |->
     CASE c = "H" -> "h" [] c = "T" -> "t" [] c = "P" -> "p" [] c = "S" -> "s"]

\* the case folding of the /i flag, on the letters of the pattern
FoldCase(s) ==
  [i \in 1..Len(s) |-> IF s[i] \in DOMAIN UpperToLower THEN UpperToLower[s[i]] ELSE s[i]]

\* /^https?:\/\//i.test(url)
MatchesHttpScheme(url) ==
  \/ StartsWith(FoldCase(url), <<"h", "t", "t", "p", ":", "/", "/">>)
  \/ StartsWith(FoldCase(url), <<"h", "t", "t", "p", "s", ":", "/", "/">>)

\* base.replace(/\/$/, '')
StripTrailingSlash(base) ==
  IF Len(base) > 0 /\ base[Len(base)] = "/" THEN SubSeq(base, 1, Len(base) - 1) ELSE base

\* String.prototype.trim, the white space being the space character
RECURSIVE TrimLeft(_)
TrimLeft(s) == IF s # <<>> /\ Head(s) = " " THEN TrimLeft(Tail(s)) ELSE s

RECURSIVE TrimRight(_)
TrimRight(s) ==
  IF s # <<>> /\ s[Len(s)] = " " THEN TrimRight(SubSeq(s, 1, Len(s) - 1)) ELSE s

Trim(s) == TrimRight(TrimLeft(s))

\* Set.prototype.has on an insertion-ordered list of members
Has(seq, x) == \E i \in 1..Len(seq) : seq[i] = x

-----------------------------------------------------------------------------
(* URL normaliser *)

DefaultBase ==
  <<"h", "t", "t", "p", "s", ":", "/", "/", "y", "o", "l", "o", "6", "6", ".",
    "x", ".", "y", "u", "p", "o", "o", ".", "c", "o", "m">>

\* the base of the join, taken from the environment
Base == OrElse(BASE_URL, DefaultBase)

\* absolute with its protocol-relative rule dropped: '//host/p' comes back as is
absoluteNoProtocolRule(url) ==
  IF ~Truthy(url) THEN <<>>
  ELSE IF MatchesHttpScheme(url) THEN url
  ELSE IF StartsWith(url, <<"/", "/">>) THEN url
  ELSE IF StartsWith(url, <<"/">>) THEN StripTrailingSlash(Base) \o url
  ELSE StripTrailingSlash(Base) \o <<"/">> \o url

absolute(url) ==
  IF ~Truthy(url) THEN <<>>
  ELSE IF MatchesHttpScheme(url) THEN url
  ELSE IF StartsWith(url, <<"/", "/">>) THEN <<"h", "t", "t", "p", "s", ":">> \o url
  ELSE IF StartsWith(url, <<"/">>) THEN StripTrailingSlash(Base) \o url
  ELSE StripTrailingSlash(Base) \o <<"/">> \o url

-----------------------------------------------------------------------------
(* Album link extractor.  A document is the sequence, in document order,   *)
(* of its anchors; an anchor records the containers it lies in, its href   *)
(* and title attributes (Undefined when absent) and its text.              *)

sels == <<"album__main", "categories__main", "show__main", "a">>

\* $(sel): the positions, in document order, of the anchors sel selects
Select(doc, sel) ==
  SelectSeq([i \in 1..Len(doc) |-> i],
            LAMBDA i : sel = "a" \/ sel \in doc[i].within)

Untitled == <<"U", "n", "t", "i", "t", "l", "e", "d">>

\* ($(el).attr('title') || $(el).text() || '').trim(), then  title || 'Untitled'
AlbumTitle(el) == OrElse(Trim(OrElse(OrElse(el.title, el.text), <<>>)), Untitled)

\* /\/albums?\//.test(url)
IsAlbumUrl(url) ==
  \/ Contains(url, <<"/", "a", "l", "b", "u", "m", "/">>)
  \/ Contains(url, <<"/", "a", "l", "b", "u", "m", "s", "/">>)

\* the callback of .each, on one anchor: st is [albums, seen]
AlbumStep(st, el) ==
  LET href == OrElse(el.href, <<>>)
      url == absolute(href)
  IN IF ~Truthy(href) THEN st
     ELSE IF IsAlbumUrl(url) /\ ~Has(st.seen, url)
          THEN [albums |-> Append(st.albums,
                                  [album_url |-> url, album_title |-> AlbumTitle(el)]),
                seen |-> Append(st.seen, url)]
          ELSE st

\* $(sel).each(...) over the selected positions
RECURSIVE AlbumEach(_, _, _)
AlbumEach(st, doc, idxs) ==
  IF idxs = <<>> THEN st
  ELSE AlbumEach(AlbumStep(st, doc[Head(idxs)]), doc, Tail(idxs))

\* for (const sel of sels), from the k-th selector on
RECURSIVE AlbumTiers(_, _, _)
AlbumTiers(st, doc, k) ==
  IF k > Len(sels) THEN st
  ELSE AlbumTiers(AlbumEach(st, doc, Select(doc, sels[k])), doc, k + 1)

\* extractAlbums with the seen-set test left out
extractAlbumsNoSeen(doc) ==
  LET RECURSIVE Each(_, _)
      Each(acc, idxs) ==
        IF idxs = <<>> THEN acc
        ELSE LET el == doc[Head(idxs)]
                 href == OrElse(el.href, <<>>)
                 url == absolute(href)
             IN Each(IF Truthy(href) /\ IsAlbumUrl(url)
                     THEN Append(acc, [album_url |-> url, album_title |-> AlbumTitle(el)])
                     ELSE acc, Tail(idxs))
      RECURSIVE Tiers(_, _)
      Tiers(acc, k) ==
        IF k > Len(sels) THEN acc ELSE Tiers(Each(acc, Select(doc, sels[k])), k + 1)
  IN Tiers(<<>>, 1)

extractAlbums(doc) == AlbumTiers([albums |-> <<>>, seen |-> <<>>], doc, 1).albums

-----------------------------------------------------------------------------
(* Image link extractor.  A document is the sequence of its img elements,  *)
(* each with its data-origin-src and src attributes (Undefined if absent). *)

\* /sprite|placeholder|loading/.test(cand)
IsPlaceholder(cand) ==
  \/ Contains(cand, <<"s", "p", "r", "i", "t", "e">>)
  \/ Contains(cand, <<"p", "l", "a", "c", "e", "h", "o", "l", "d", "e", "r">>)
  \/ Contains(cand, <<"l", "o", "a", "d", "i", "n", "g">>)

\* the candidate of an element:  d || s || ''
Candidate(el) == OrElse(OrElse(el.d, el.s), <<>>)

\* the callback of $('img').each: the urls pushed so far, and one element
ImageStep(urls, el) ==
  LET cand == Candidate(el)
  IN IF ~Truthy(cand) THEN urls
     ELSE IF IsPlaceholder(cand) THEN urls
     ELSE Append(urls, absolute(cand))

RECURSIVE ImageEach(_, _)
ImageEach(urls, doc) ==
  IF doc = <<>> THEN urls ELSE ImageEach(ImageStep(urls, Head(doc)), Tail(doc))

\* the loop "Deduplicate while preserving order"
RECURSIVE Unique(_, _)
Unique(unique, urls) ==
  IF urls = <<>> THEN unique
  ELSE Unique(IF Has(unique, Head(urls)) THEN unique ELSE Append(unique, Head(urls)),
              Tail(urls))

\* extractImages with the attributes' precedence swapped: src before data-origin-src
extractImagesSrcFirst(doc) ==
  Unique(<<>>, ImageEach(<<>>, [i \in 1..Len(doc) |-> [d |-> doc[i].s, s |-> doc[i].d]]))

extractImages(doc) == Unique(<<>>, ImageEach(<<>>, doc))

-----------------------------------------------------------------------------
(* Direct calls of the pure functions, on inputs drawn from bounded sets *)

BaseUrls == {Undefined, <<>>, <<"h", "t", "t", "p", "s", ":", "/", "/", "h">>, <<"h", "t", "t", "p", "s", ":", "/", "/", "h", "/">>}

Urls ==
  {<<>>, <<"/", "a", "l", "b", "u", "m", "s", "/", "1">>, <<"a", "l", "b", "u", "m", "s", "/", "1">>, <<"/", "/", "h", "/", "a", "l", "b", "u", "m", "/", "2">>, <<"h", "t", "t", "p", "s", ":", "/", "/", "h", "/", "a", "l", "b", "u", "m", "/", "2">>,
   <<"H", "T", "T", "P", ":", "/", "/", "h", "/", "a", "l", "b", "u", "m", "s", "/", "1">>, <<"/", "x">>, <<"f", "t", "p", ":", "/", "/", "h", "/", "a", "l", "b", "u", "m", "/", "3">>, <<"d", "a", "t", "a", ":", "x">>, <<"m", "a", "i", "l", "t", "o", ":", "a">>,
   <<"a", ".", "j", "p", "g">>, <<"/", "/">>, <<"/", "/", "/", "a", ".", "j", "p", "g">>}

Anchors ==
  {[within |-> {"album__main"}, href |-> <<"/", "a", "l", "b", "u", "m", "s", "/", "1">>, title |-> <<"T">>, text |-> <<"A">>],
   [within |-> {}, href |-> <<"a", "l", "b", "u", "m", "s", "/", "1">>, title |-> Undefined, text |-> <<"B">>],
   [within |-> {"show__main"}, href |-> <<"/", "/", "h", "/", "a", "l", "b", "u", "m", "/", "2">>, title |-> Undefined, text |-> <<>>],
   [within |-> {"categories__main"}, href |-> <<"h", "t", "t", "p", "s", ":", "/", "/", "h", "/", "a", "l", "b", "u", "m", "/", "2">>, title |-> <<" ">>, text |-> <<"B">>],
   [within |-> {}, href |-> <<"/", "x">>, title |-> <<"T">>, text |-> <<"A">>],
   [within |-> {"album__main", "show__main"}, href |-> Undefined, title |-> <<"T">>, text |-> <<"A">>],
   [within |-> {"show__main"}, href |-> <<"/", "a", "l", "b", "u", "m", "s", "/", "1">>, title |-> Undefined, text |-> <<" ", "B", " ">>],
   [within |-> {}, href |-> <<"f", "t", "p", ":", "/", "/", "h", "/", "a", "l", "b", "u", "m", "/", "3">>, title |-> <<>>, text |-> <<"A">>],
   [within |-> {"categories__main"}, href |-> <<"/", "/", "/", "a", "l", "b", "u", "m", "/", "4">>, title |-> <<"T">>, text |-> <<>>]}

Imgs ==
  {[d |-> Undefined, s |-> <<"a", ".", "j", "p", "g">>],
   [d |-> <<"b", ".", "j", "p", "g">>, s |-> <<"l", "o", "w", ".", "j", "p", "g">>],
   [d |-> Undefined, s |-> <<"s", "p", "r", "i", "t", "e", "1", ".", "p", "n", "g">>],
   [d |-> <<>>, s |-> <<"a", ".", "j", "p", "g">>],
   [d |-> Undefined, s |-> Undefined],
   [d |-> Undefined, s |-> <<"/", "a", ".", "j", "p", "g">>],
   [d |-> <<"/", "/", "c", "/", "a", ".", "j", "p", "g">>, s |-> Undefined],
   [d |-> Undefined, s |-> <<"l", "o", "a", "d", "i", "n", "g", ".", "g", "i", "f">>],
   [d |-> <<"x", "/", "p", "l", "a", "c", "e", "h", "o", "l", "d", "e", "r", ".", "p", "n", "g">>, s |-> <<"a", ".", "j", "p", "g">>],
   [d |-> <<"/", "/", "/", "a", ".", "j", "p", "g">>, s |-> <<>>]}

\* the sequences over S of length at most n
SeqsUpTo(S, n) == UNION {[1..k -> S] : k \in 0..n}

NoCall == [fn |-> "none", arg |-> <<>>, ret |-> <<>>]

CallAbsolute ==
  /\ call = NoCall
  /\ \E url \in Urls :
       call' = [fn |-> "absolute", arg |-> url, ret |-> absolute(url)]
  /\ UNCHANGED <<envVars, serverVars>>

CallExtractAlbums ==
  /\ call = NoCall
  /\ \E doc \in SeqsUpTo(Anchors, MaxAnchors) :
       call' = [fn |-> "extractAlbums", arg |-> doc, ret |-> extractAlbums(doc)]
  /\ UNCHANGED <<envVars, serverVars>>

CallExtractImages ==
  /\ call = NoCall
  /\ \E doc \in SeqsUpTo(Imgs, MaxImgs) :
       call' = [fn |-> "extractImages", arg |-> doc, ret |-> extractImages(doc)]
  /\ UNCHANGED <<envVars, serverVars>>

-----------------------------------------------------------------------------
(* Spreadsheet credential: Buffer.from(keyBase64, 'base64') and JSON.parse *)

Null == <<"null">>

Base64Alphabet ==
  <<"A", "B", "C", "D", "E", "F", "G", "H", "I", "J", "K", "L", "M", "N", "O", "P",
    "Q", "R", "S", "T", "U", "V", "W", "X", "Y", "Z", "a", "b", "c", "d", "e", "f",
    "g", "h", "i", "j", "k", "l", "m", "n", "o", "p", "q", "r", "s", "t", "u", "v",
    "w", "x", "y", "z", "0", "1", "2", "3", "4", "5", "6", "7", "8", "9", "+", "/">>

\* the 6-bit value of a character of the alphabet
Base64Value(c) == (CHOOSE i \in 1..64 : Base64Alphabet[i] = c) - 1

IsBase64Char(c) == \E i \in 1..64 : Base64Alphabet[i] = c

\* the characters the decoder reads: it stops at the first '=' and skips every
\* character outside the alphabet; it raises no error
RECURSIVE Sextets(_)
Sextets(s) ==
  IF s = <<>> \/ Head(s) = "=" THEN <<>>
  ELSE IF IsBase64Char(Head(s)) THEN <<Base64Value(Head(s))>> \o Sextets(Tail(s))
  ELSE Sextets(Tail(s))

\* groups of four sextets to three bytes; a last group of two or three
\* sextets gives one or two bytes, a lone sextet none
RECURSIVE BytesOf(_)
BytesOf(x) ==
  IF Len(x) < 2 THEN <<>>
  ELSE LET b1 == x[1] * 4 + (x[2] \div 16)
       IN IF Len(x) = 2 THEN <<b1>>
          ELSE LET b2 == (x[2] % 16) * 16 + (x[3] \div 4)
               IN IF Len(x) = 3 THEN <<b1, b2>>
                  ELSE <<b1, b2, (x[3] % 4) * 64 + x[4]>> \o BytesOf(SubSeq(x, 5, Len(x)))

\* Buffer.from(keyBase64, 'base64'): the decoded bytes
BufferFromBase64(s) == BytesOf(Sextets(s))

\* JSON white space: space, tab, line feed, carriage return
JsonSpace == {32, 9, 10, 13}

RECURSIVE SkipSpace(_)
SkipSpace(b) == IF b # <<>> /\ Head(b) \in JsonSpace THEN SkipSpace(Tail(b)) ELSE b

\* JSON.parse returns rather than throws.  The key of the model is the empty
\* object: the text is '{', '}' with optional white space around and between.
JsonParses(bytes) ==
  LET a == SkipSpace(bytes)
  IN /\ a # <<>> /\ Head(a) = 123
     /\ LET b == SkipSpace(Tail(a))
        IN b # <<>> /\ Head(b) = 125 /\ SkipSpace(Tail(b)) = <<>>

\* the outcome of initSheets(): the message of the error it throws, or "" when
\* it returns a client
initSheets ==
  IF ~Truthy(GSA_BASE64) THEN "Missing GSA_BASE64 environment variable"
  ELSE IF ~JsonParses(BufferFromBase64(GSA_BASE64))
       THEN "Failed to decode or parse GSA_BASE64: "
       ELSE ""

-----------------------------------------------------------------------------
(* Spreadsheet appender.  A row object is a function from its keys to      *)
(* values: strings or Null.                                                *)

header ==
  <<"Album Title", "Album URL", "Image 1", "Image 2", "Image 3", "Image 4",
    "Image 5", "Image 6", "Image 7", "Image 8">>

\* row[h]
Get(row, h) == IF h \in DOMAIN row THEN row[h] ELSE Undefined

\* header.map(h => row[h] || '') with the columns in reverse order
RowValuesReversed(row) ==
  [i \in 1..Len(header) |-> OrElse(Get(row, header[Len(header) + 1 - i]), <<>>)]

\* header.map(h => row[h] || '')
RowValues(row) == [i \in 1..Len(header) |-> OrElse(Get(row, header[i]), <<>>)]

\* rows.map(row => ...)
Values(rows) == [i \in 1..Len(rows) |-> RowValues(rows[i])]

-----------------------------------------------------------------------------
(* HTTP surface.  A body field is a tagged value: absent, a string, an     *)
(* array.  An html string stands for the document cheerio.load makes of it.*)

Idle == [pc |-> "idle"]

Absent == [is |-> "undefined"]

UrlValues == {Absent, [is |-> "string", chars |-> <<>>], [is |-> "string", chars |-> <<"u">>]}

AlbumHtmlValues ==
  {Absent, [is |-> "string", empty |-> TRUE, elems |-> <<>>]}
    \cup {[is |-> "string", empty |-> FALSE, elems |-> doc] : doc \in SeqsUpTo({a \in Anchors : a.within = {"album__main"}}, 1)}

ImageHtmlValues ==
  {Absent, [is |-> "string", empty |-> TRUE, elems |-> <<>>]}
    \cup {[is |-> "string", empty |-> FALSE, elems |-> doc] : doc \in SeqsUpTo({el \in Imgs : Truthy(el.d) /\ Truthy(el.s)}, 1)}

RowLists ==
  {<<>>,
   <<("Album Title" :> <<"T">>) @@ ("Album URL" :> <<"U">>) @@ ("Image 1" :> <<"i", "1">>)>>,
   <<("Album URL" :> <<"U">>) @@ ("Image 8" :> Null) @@ ("Extra" :> <<"x">>) @@ ("Image 2" :> <<>>),
     ("Image 8" :> <<"i", "8">>) @@ ("Album Title" :> <<"T">>)>>}

RowsValues ==
  {Absent, [is |-> "string", chars |-> <<"x">>]}
    \cup {[is |-> "array", items |-> rows] : rows \in RowLists}

\* !url, !html
Falsy(v) == v.is = "undefined" \/ (v.is = "string" /\ v.chars = <<>>)

HtmlFalsy(v) == v.is = "undefined" \/ v.empty

\* the messages of the errors the browser and the spreadsheet API raise
LaunchErrors == {"Failed to launch the browser process"}
NewPageErrors == {"Protocol error (Target.createTarget)"}
GotoErrors == {"", "Navigation timeout of 60000 ms exceeded"}
ContentErrors == {"Execution context was destroyed"}
ApiErrors == {"", "The caller does not have permission"}

\* err.message || fallback
MessageOr(m, fallback) == IF m # "" THEN m ELSE fallback

NoResp == [endpoint |-> "none"]

Response(endpoint, request, status, error, delegated, result) ==
  [endpoint |-> endpoint, request |-> request, status |-> status, error |-> error,
   delegated |-> delegated, result |-> result]

\* res.status(400).json({error})
BadRequest(endpoint, request, error) == Response(endpoint, request, 400, error, FALSE, <<>>)

\* the catch of a handler: res.status(500).json({error: err.message || fallback})
Failure(endpoint, request, m) ==
  Response(endpoint, request, 500, MessageOr(m, endpoint \o " error"), TRUE, <<>>)

\* res.json(result)
Success(endpoint, request, result) == Response(endpoint, request, 200, "", TRUE, result)

(* ---- POST /tool/fetch_html and fetchHTML ---- *)

\* the handler without its test of url
PostFetchHtmlNoCheck(p) ==
  /\ procs[p].pc = "idle"
  /\ \E url \in UrlValues :
       procs' = [procs EXCEPT ![p] =
                   IF browser = 0 THEN [pc |-> "launch", url |-> url]
                   ELSE [pc |-> "newPage", url |-> url, on |-> browser]]
  /\ UNCHANGED <<envVars, call, browser, launched, pages, sheetClients, appendLog, resp>>

\* The handler up to the first await of fetchHTML: the 400, or the call of
\* puppeteer.launch when fetchHTML.browser is unset, or else of browser.newPage.
\* The body is the object express.json parsed.  The render flag only picks
\* the waitUntil option of page.goto, whose outcome GotoResolved and
\* GotoRejected leave open.
PostFetchHtml(p) ==
  /\ procs[p].pc = "idle"
  /\ \E url \in UrlValues :
       IF Falsy(url)
       THEN /\ resp' = BadRequest("fetch_html", url, "url is required")
            /\ UNCHANGED procs
       ELSE /\ procs' = [procs EXCEPT ![p] =
                           IF browser = 0 THEN [pc |-> "launch", url |-> url]
                           ELSE [pc |-> "newPage", url |-> url, on |-> browser]]
            /\ UNCHANGED resp
  /\ UNCHANGED <<envVars, call, browser, launched, pages, sheetClients, appendLog>>

\* puppeteer.launch resolves: fetchHTML.browser is assigned, read back into
\* the local browser, and browser.newPage is called
LaunchResolved(p) ==
  /\ procs[p].pc = "launch"
  /\ LET b == Cardinality(launched) + 1
     IN /\ launched' = launched \cup {b}
        /\ browser' = b
        /\ procs' = [procs EXCEPT ![p] = [pc |-> "newPage", url |-> procs[p].url, on |-> b]]
  /\ UNCHANGED <<envVars, call, pages, sheetClients, appendLog, resp>>

\* puppeteer.launch rejects: fetchHTML throws, the handler answers 500
LaunchRejected(p) ==
  /\ procs[p].pc = "launch"
  /\ \E m \in LaunchErrors : resp' = Failure("fetch_html", procs[p].url, m)
  /\ procs' = [procs EXCEPT ![p] = Idle]
  /\ UNCHANGED <<envVars, call, browser, launched, pages, sheetClients, appendLog>>

\* the page p's call has open
PageOf(p) == [owner |-> p, on |-> procs[p].on]

\* browser.newPage resolves: the page is open and page.goto is called
NewPageResolved(p) ==
  /\ procs[p].pc = "newPage"
  /\ pages' = pages \cup {PageOf(p)}
  /\ procs' = [procs EXCEPT ![p].pc = "goto"]
  /\ UNCHANGED <<envVars, call, browser, launched, sheetClients, appendLog, resp>>

\* browser.newPage rejects, outside the try: no page, the handler answers 500
NewPageRejected(p) ==
  /\ procs[p].pc = "newPage"
  /\ \E m \in NewPageErrors : resp' = Failure("fetch_html", procs[p].url, m)
  /\ procs' = [procs EXCEPT ![p] = Idle]
  /\ UNCHANGED <<envVars, call, browser, launched, pages, sheetClients, appendLog>>

\* page.goto resolves: page.content is called
GotoResolved(p) ==
  /\ procs[p].pc = "goto"
  /\ procs' = [procs EXCEPT ![p].pc = "content"]
  /\ UNCHANGED <<envVars, call, browser, launched, pages, sheetClients, appendLog, resp>>

\* page.goto rejects: the catch calls page.close
GotoRejected(p) ==
  /\ procs[p].pc = "goto"
  /\ \E m \in GotoErrors :
       procs' = [procs EXCEPT ![p] = [pc |-> "closeInCatch", url |-> procs[p].url,
                                      on |-> procs[p].on, err |-> m]]
  /\ UNCHANGED <<envVars, call, browser, launched, pages, sheetClients, appendLog, resp>>

\* page.content resolves: page.url is read and page.close is called
ContentResolved(p) ==
  /\ procs[p].pc = "content"
  /\ procs' = [procs EXCEPT ![p].pc = "close"]
  /\ UNCHANGED <<envVars, call, browser, launched, pages, sheetClients, appendLog, resp>>

\* page.content rejects: the catch calls page.close
ContentRejected(p) ==
  /\ procs[p].pc = "content"
  /\ \E m \in ContentErrors :
       procs' = [procs EXCEPT ![p] = [pc |-> "closeInCatch", url |-> procs[p].url,
                                      on |-> procs[p].on, err |-> m]]
  /\ UNCHANGED <<envVars, call, browser, launched, pages, sheetClients, appendLog, resp>>

\* page.close of the try resolves: the page is closed, fetchHTML returns
\* {html, finalUrl} and the handler answers with it
CloseResolved(p) ==
  /\ procs[p].pc = "close"
  /\ pages' = pages \ {PageOf(p)}
  /\ resp' = Success("fetch_html", procs[p].url,
                     [html |-> "content", finalUrl |-> "url"])
  /\ procs' = [procs EXCEPT ![p] = Idle]
  /\ UNCHANGED <<envVars, call, browser, launched, sheetClients, appendLog>>

\* the catch without its page.close: the error is rethrown at once
CloseInCatchSkipped(p) ==
  /\ procs[p].pc = "closeInCatch"
  /\ resp' = Failure("fetch_html", procs[p].url, procs[p].err)
  /\ procs' = [procs EXCEPT ![p] = Idle]
  /\ UNCHANGED <<envVars, call, browser, launched, pages, sheetClients, appendLog>>

\* page.close of the catch resolves: the page is closed, the error is
\* rethrown and the handler answers 500
CloseInCatchResolved(p) ==
  /\ procs[p].pc = "closeInCatch"
  /\ pages' = pages \ {PageOf(p)}
  /\ resp' = Failure("fetch_html", procs[p].url, procs[p].err)
  /\ procs' = [procs EXCEPT ![p] = Idle]
  /\ UNCHANGED <<envVars, call, browser, launched, sheetClients, appendLog>>

(* ---- POST /tool/extract_album_links, POST /tool/extract_image_links ---- *)

PostExtractAlbumLinks ==
  /\ \E html \in AlbumHtmlValues :
       resp' = IF HtmlFalsy(html)
               THEN BadRequest("extract_album_links", html, "html is required")
               ELSE Success("extract_album_links", html, extractAlbums(html.elems))
  /\ UNCHANGED <<envVars, call, browser, launched, pages, procs, sheetClients, appendLog>>

PostExtractImageLinks ==
  /\ \E html \in ImageHtmlValues :
       resp' = IF HtmlFalsy(html)
               THEN BadRequest("extract_image_links", html, "html is required")
               ELSE Success("extract_image_links", html, extractImages(html.elems))
  /\ UNCHANGED <<envVars, call, browser, launched, pages, procs, sheetClients, appendLog>>

(* ---- POST /tool/sheets_append_rows and appendRows ---- *)

\* The handler up to the await of values.append: the 400, or appendRows:
\* initSheets, the test of SHEET_ID and SHEET_NAME, the values, the API call.
PostSheetsAppendRows(p) ==
  /\ procs[p].pc = "idle"
  /\ \E rows \in RowsValues :
       IF rows.is # "array"
       THEN /\ resp' = BadRequest("sheets_append_rows", rows, "rows must be an array")
            /\ UNCHANGED <<procs, sheetClients, appendLog>>
       ELSE /\ sheetClients < MaxAppends
            /\ IF initSheets # ""
               THEN /\ resp' = Failure("sheets_append_rows", rows, initSheets)
                    /\ UNCHANGED <<procs, sheetClients, appendLog>>
               ELSE /\ sheetClients' = sheetClients + 1
                    /\ IF ~Truthy(SHEET_ID) \/ ~Truthy(SHEET_NAME)
                       THEN /\ resp' = Failure("sheets_append_rows", rows,
                                   "Missing SHEET_ID or SHEET_NAME environment variables")
                            /\ UNCHANGED <<procs, appendLog>>
                       ELSE /\ appendLog' = Append(appendLog,
                                   [client |-> sheetClients + 1,
                                    spreadsheetId |-> SHEET_ID,
                                    range |-> SHEET_NAME \o <<"!", "A", ":", "J">>,
                                    values |-> Values(rows.items)])
                            /\ procs' = [procs EXCEPT ![p] =
                                   [pc |-> "append", rows |-> rows,
                                    at |-> Len(appendLog) + 1]]
                            /\ UNCHANGED resp
  /\ UNCHANGED <<envVars, call, browser, launched, pages>>

\* values.append resolves: appendRows returns rows.length
AppendResolved(p) ==
  /\ procs[p].pc = "append"
  /\ resp' = Success("sheets_append_rows", procs[p].rows,
                     [ok |-> TRUE, count |-> Len(procs[p].rows.items)])
  /\ procs' = [procs EXCEPT ![p] = Idle]
  /\ UNCHANGED <<envVars, call, browser, launched, pages, sheetClients, appendLog>>

\* values.append rejects: the handler answers 500
AppendRejected(p) ==
  /\ procs[p].pc = "append"
  /\ \E m \in ApiErrors : resp' = Failure("sheets_append_rows", procs[p].rows, m)
  /\ procs' = [procs EXCEPT ![p] = Idle]
  /\ UNCHANGED <<envVars, call, browser, launched, pages, sheetClients, appendLog>>

-----------------------------------------------------------------------------
(* Specifications *)

\* GSA_BASE64: the base64 of '{}', the same without its padding, the base64
\* of 'x', a truncated text that decodes to '{', and the variable unset
Credentials == {Undefined, <<"e", "3", "0", "=">>, <<"e", "3", "0">>, <<"e", "A", "=", "=">>, <<"e", "3">>}

\* the environments the server is started in: <<BASE_URL, GSA_BASE64, SHEET_ID, SHEET_NAME>>
Environments ==
  {<<Undefined, gsa, <<"i", "d">>, <<"S", "h", "e", "e", "t", "1">>>> : gsa \in Credentials}
    \cup {<<<<"h", "t", "t", "p", "s", ":", "/", "/", "h", "/">>, <<"e", "3", "0", "=">>, <<"i", "d">>, <<"S", "h", "e", "e", "t", "1">>>>,
          <<Undefined, <<"e", "3", "0", "=">>, Undefined, <<"S", "h", "e", "e", "t", "1">>>>,
          <<Undefined, <<"e", "3", "0", "=">>, <<"i", "d">>, Undefined>>}

InitServerVars(slots) ==
  /\ browser = 0
  /\ launched = {}
  /\ pages = {}
  /\ procs = [p \in slots |-> Idle]
  /\ sheetClients = 0
  /\ appendLog = <<>>
  /\ resp = NoResp

Procs == 1..NumSlots

\* the server after app.listen, under each environment
Init ==
  /\ \E e \in Environments :
       BASE_URL = e[1] /\ GSA_BASE64 = e[2] /\ SHEET_ID = e[3] /\ SHEET_NAME = e[4]
  /\ call = NoCall
  /\ InitServerVars(Procs)

Next ==
  \/ \E p \in Procs : PostFetchHtml(p)
  \/ \E p \in Procs : LaunchResolved(p)
  \/ \E p \in Procs : LaunchRejected(p)
  \/ \E p \in Procs : NewPageResolved(p)
  \/ \E p \in Procs : NewPageRejected(p)
  \/ \E p \in Procs : GotoResolved(p)
  \/ \E p \in Procs : GotoRejected(p)
  \/ \E p \in Procs : ContentResolved(p)
  \/ \E p \in Procs : ContentRejected(p)
  \/ \E p \in Procs : CloseResolved(p)
  \/ \E p \in Procs : CloseInCatchResolved(p)
  \/ PostExtractAlbumLinks
  \/ PostExtractImageLinks
  \/ \E p \in Procs : PostSheetsAppendRows(p)
  \/ \E p \in Procs : AppendResolved(p)
  \/ \E p \in Procs : AppendRejected(p)

Spec == Init /\ [][Next]_vars

\* the pure functions called directly, under each BASE_URL
InitExtract ==
  /\ BASE_URL \in BaseUrls
  /\ GSA_BASE64 = Undefined
  /\ SHEET_ID = Undefined
  /\ SHEET_NAME = Undefined
  /\ call = NoCall
  /\ InitServerVars(Procs)

NextExtract ==
  \/ CallAbsolute
  \/ CallExtractAlbums
  \/ CallExtractImages

SpecExtract == InitExtract /\ [][NextExtract]_vars

\* the renderer alone: fetch_html requests, NumRenders of them at once
Renders == 1..NumRenders

InitRender ==
  /\ BASE_URL = Undefined
  /\ GSA_BASE64 = Undefined
  /\ SHEET_ID = Undefined
  /\ SHEET_NAME = Undefined
  /\ call = NoCall
  /\ InitServerVars(Renders)

NextRender ==
  \/ \E p \in Renders : PostFetchHtml(p)
  \/ \E p \in Renders : LaunchResolved(p)
  \/ \E p \in Renders : LaunchRejected(p)
  \/ \E p \in Renders : NewPageResolved(p)
  \/ \E p \in Renders : NewPageRejected(p)
  \/ \E p \in Renders : GotoResolved(p)
  \/ \E p \in Renders : GotoRejected(p)
  \/ \E p \in Renders : ContentResolved(p)
  \/ \E p \in Renders : ContentRejected(p)
  \/ \E p \in Renders : CloseResolved(p)
  \/ \E p \in Renders : CloseInCatchResolved(p)

SpecRender == InitRender /\ [][NextRender]_vars

-----------------------------------------------------------------------------
(* Properties *)

Letters ==
  {"a", "b", "c", "d", "e", "f", "g", "h", "i", "j", "k", "l", "m",
   "n", "o", "p", "q", "r", "s", "t", "u", "v", "w", "x", "y", "z",
   "A", "B", "C", "D", "E", "F", "G", "H", "I", "J", "K", "L", "M",
   "N", "O", "P", "Q", "R", "S", "T", "U", "V", "W", "X", "Y", "Z"}

Digits == {"0", "1", "2", "3", "4", "5", "6", "7", "8", "9"}

\* the position of the colon that ends a scheme at the head of u, or 0
SchemeColon(u) ==
  IF \E k \in 2..Len(u) :
       /\ u[k] = ":"
       /\ u[1] \in Letters
       /\ \A j \in 2..(k - 1) : u[j] \in Letters \cup Digits \cup {"+", "-", "."}
  THEN CHOOSE k \in 2..Len(u) :
         /\ u[k] = ":"
         /\ \A j \in 1..(k - 1) : u[j] # ":"
  ELSE 0

\* u begins with a scheme: a letter, then letters, digits, '+', '-', '.', then ':'
HasScheme(u) == SchemeColon(u) # 0

\* u is scheme://host...: a scheme, '//' and a host of at least one character
HasSchemeAndHost(u) ==
  LET k == SchemeColon(u)
  IN /\ k # 0
     /\ Len(u) >= k + 3
     /\ u[k + 1] = "/" /\ u[k + 2] = "/"
     /\ u[k + 3] \notin {"/", "?", "#"}

\* an absolute URL: not empty, not protocol-relative, with a scheme and a host
IsAbsoluteUrl(u) == u # <<>> /\ ~StartsWith(u, <<"/", "/">>) /\ HasSchemeAndHost(u)

\* an attribute value '//' with no host after it: '//' alone or '///...'
HasEmptyAuthority(v) ==
  /\ StartsWith(v, <<"/", "/">>)
  /\ (Len(v) = 2 \/ v[3] \in {"/", "?", "#"})

\* the URLs a call of an extractor returned, and the attribute values it read
Emitted ==
  IF call.fn = "extractAlbums" THEN {call.ret[i].album_url : i \in 1..Len(call.ret)}
  ELSE IF call.fn = "extractImages" THEN {call.ret[i] : i \in 1..Len(call.ret)}
  ELSE {}

RawValues ==
  IF call.fn = "extractAlbums" THEN {call.arg[i].href : i \in 1..Len(call.arg)}
  ELSE IF call.fn = "extractImages"
       THEN {call.arg[i].d : i \in 1..Len(call.arg)} \cup {call.arg[i].s : i \in 1..Len(call.arg)}
  ELSE {}

C3_SchemeReturnedUnchanged ==
  (call.fn = "absolute" /\ HasScheme(call.arg)) => call.ret = call.arg

\* the positions of doc in the order extractAlbums visits them: the four
\* tiers in turn, document order within a tier
ScanOrder(doc) ==
  Select(doc, "album__main") \o Select(doc, "categories__main")
    \o Select(doc, "show__main") \o Select(doc, "a")

\* the anchor has an href and it resolves to an album URL
IsAlbumAnchor(el) == Truthy(el.href) /\ IsAlbumUrl(absolute(el.href))

\* C4: extractAlbums returns no two entries with the same album_url; the entry
\* of a URL carries the title of the first anchor, in scan order (tier by tier,
\* document order within a tier), that resolves to that URL; and every album
\* URL some anchor resolves to has its entry.
C4_AlbumsUniqueFirstTierTitle ==
  call.fn = "extractAlbums" =>
    LET doc == call.arg
        out == call.ret
        scan == ScanOrder(doc)
    IN /\ \A i, j \in 1..Len(out) : out[i].album_url = out[j].album_url => i = j
       /\ \A i \in 1..Len(out) :
            \E k \in 1..Len(scan) :
              /\ IsAlbumAnchor(doc[scan[k]])
              /\ absolute(doc[scan[k]].href) = out[i].album_url
              /\ \A m \in 1..(k - 1) :
                   ~(IsAlbumAnchor(doc[scan[m]])
                       /\ absolute(doc[scan[m]].href) = out[i].album_url)
              /\ out[i].album_title = AlbumTitle(doc[scan[k]])
       /\ \A n \in 1..Len(doc) :
            IsAlbumAnchor(doc[n]) =>
              \E i \in 1..Len(out) : out[i].album_url = absolute(doc[n].href)

\* C4 witness: two anchors with different titles resolve to one URL, the later
\* one in the document lies in an earlier tier, and the one entry has its title
C4_Witness ==
  /\ call.fn = "extractAlbums"
  /\ Len(call.ret) = 1
  /\ \E m, n \in 1..Len(call.arg) :
       /\ m < n
       /\ IsAlbumAnchor(call.arg[m]) /\ IsAlbumAnchor(call.arg[n])
       /\ call.arg[m].href # call.arg[n].href
       /\ absolute(call.arg[m].href) = absolute(call.arg[n].href)
       /\ call.arg[m].within = {} /\ "album__main" \in call.arg[n].within
       /\ AlbumTitle(call.arg[m]) # AlbumTitle(call.arg[n])
       /\ call.ret[1].album_title = AlbumTitle(call.arg[n])

\* the elements of seq that occur first, in order
FirstOccurrences(seq) ==
  LET keep == SelectSeq([i \in 1..Len(seq) |-> i],
                        LAMBDA i : \A j \in 1..(i - 1) : seq[j] # seq[i])
  IN [k \in 1..Len(keep) |-> seq[keep[k]]]

\* the resolved candidates of the elements cand keeps, in document order
Resolved(doc, cand(_), kept(_)) ==
  LET live == SelectSeq(doc, LAMBDA el : kept(el) /\ ~IsPlaceholder(cand(el)))
  IN [k \in 1..Len(live) |-> absolute(cand(live[k]))]

\* the candidate as C5 states it: data-origin-src if present, otherwise src
PresentCandidate(el) == IF el.d # Undefined THEN el.d ELSE el.s

HasPresentCandidate(el) == el.d # Undefined \/ el.s # Undefined

\* the candidate as amended: data-origin-src if present and not empty,
\* otherwise src
NonEmptyCandidate(el) == IF el.d # Undefined /\ el.d # <<>> THEN el.d ELSE el.s

HasNonEmptyCandidate(el) ==
  (el.d # Undefined /\ el.d # <<>>) \/ (el.s # Undefined /\ el.s # <<>>)

\* C5 as stated: extractImages returns the first occurrences of
\* absolute(candidate) over the surviving candidates, the candidate of an
\* element being its data-origin-src if present and otherwise its src,
\* elements with neither skipped.
C5_ImagesPresentAttribute ==
  call.fn = "extractImages" =>
    call.ret = FirstOccurrences(Resolved(call.arg, PresentCandidate, HasPresentCandidate))

\* C5 amended: extractImages returns, in document order of first occurrence,
\* the de-duplicated absolute(candidate) over the surviving candidates, the
\* candidate of an element being its data-origin-src if present and not
\* empty, otherwise its src; elements where both are absent or empty are
\* skipped; a candidate containing 'sprite', 'placeholder' or 'loading' is
\* discarded.
C5_ImagesNonEmptyAttribute ==
  call.fn = "extractImages" =>
    call.ret = FirstOccurrences(Resolved(call.arg, NonEmptyCandidate, HasNonEmptyCandidate))

\* C5 witness: an element with both attributes, then two elements whose
\* different src values resolve to one URL; the result is the two distinct URLs
C5_Witness ==
  /\ call.fn = "extractImages"
  /\ Len(call.arg) = 3 /\ Len(call.ret) = 2
  /\ Truthy(call.arg[1].d) /\ Truthy(call.arg[1].s)
  /\ call.ret[1] = absolute(call.arg[1].d)
  /\ call.arg[2].s # call.arg[3].s
  /\ Truthy(call.arg[2].s) /\ Truthy(call.arg[3].s)
  /\ absolute(call.arg[2].s) = absolute(call.arg[3].s)
  /\ call.ret[2] = absolute(call.arg[2].s)

\* the requests whose handler is past its validation: a call of fetchHTML or
\* of appendRows is under way
RenderCalls == {p \in DOMAIN procs : procs[p].pc \notin {"idle", "append"}}

AppendCalls == {p \in DOMAIN procs : procs[p].pc = "append"}

\* C1: a request without its required field (url, html, html, rows) is
\* answered 400 with an error message, never 500, and its delegate
\* (fetchHTML, extractAlbums, extractImages, appendRows) is not invoked: no
\* response to such a request has another status or follows a call of the
\* delegate, and no call of fetchHTML or appendRows is under way for one.
C1_MissingFieldAnswered400 ==
  /\ (resp.endpoint # "none" /\ resp.request.is = "undefined") =>
       (resp.status = 400 /\ resp.error # "" /\ ~resp.delegated)
  /\ \A p \in RenderCalls : procs[p].url.is # "undefined"
  /\ \A p \in AppendCalls : procs[p].rows.is # "undefined"

\* C1 witness: a fetch_html request without url was answered 400 while no
\* call of fetchHTML was made for it
C1_Witness ==
  /\ resp.endpoint = "fetch_html"
  /\ resp.request.is = "undefined"
  /\ resp.status = 400
  /\ resp.error = "url is required"
  /\ RenderCalls = {}
  /\ browser = 0

\* the ten columns as C6 lists them
ClaimedColumns ==
  <<"Album Title", "Album URL", "Image 1", "Image 2", "Image 3", "Image 4",
    "Image 5", "Image 6", "Image 7", "Image 8">>

\* the cell C6 states for a column: the value under that name, the empty
\* string when it is missing or null
ClaimedCell(row, column) ==
  IF column \in DOMAIN row /\ row[column] # Null THEN row[column] ELSE <<>>

\* C6: a call of appendRows that reaches the API sends one append call whose
\* values have one row per input object, in input order, each of ten cells in
\* the order Album Title, Album URL, Image 1..8, a missing or null value being
\* the empty string and other keys left out; no more append calls are sent
\* than calls of appendRows were made; the count answered is the number of
\* input rows.
C6_OneAppendOfTenColumns ==
  /\ \A p \in AppendCalls :
       LET rows == procs[p].rows.items
           sent == appendLog[procs[p].at].values
       IN /\ \A q \in AppendCalls : procs[q].at = procs[p].at => q = p
          /\ Len(sent) = Len(rows)
          /\ \A i \in 1..Len(rows) :
               /\ Len(sent[i]) = 10
               /\ \A j \in 1..10 : sent[i][j] = ClaimedCell(rows[i], ClaimedColumns[j])
  /\ Len(appendLog) <= sheetClients
  /\ (resp.endpoint = "sheets_append_rows" /\ resp.status = 200) =>
       (resp.result.ok /\ resp.result.count = Len(resp.request.items))

\* C6 witness: two rows, the first with a null cell and a key outside the
\* columns, were sent in one call and the count 2 was answered
C6_Witness ==
  /\ resp.endpoint = "sheets_append_rows"
  /\ resp.status = 200
  /\ resp.result.count = 2
  /\ "Extra" \in DOMAIN resp.request.items[1]
  /\ resp.request.items[1]["Image 8"] = Null
  /\ Len(appendLog) = 1
  /\ appendLog[1].values =
       << <<<<>>, <<"U">>, <<>>, <<>>, <<>>, <<>>, <<>>, <<>>, <<>>, <<>>>>,
          <<<<"T">>, <<>>, <<>>, <<>>, <<>>, <<>>, <<>>, <<>>, <<>>, <<"i", "8">>>> >>

\* C7 as stated: initSheets constructs the API client at most once in the
\* life of the process, and every append call uses that one client.
C7_ClientConstructedOnce ==
  /\ sheetClients <= 1
  /\ \A i, j \in 1..Len(appendLog) : appendLog[i].client = appendLog[j].client

\* RFC 4648 base64: a multiple of four characters of the alphabet, the last
\* one or two of which may be the padding '='
IsWellFormedBase64(s) ==
  /\ Len(s) % 4 = 0
  /\ \E pad \in 0..2 :
       /\ pad <= Len(s)
       /\ \A i \in 1..Len(s) :
            IF i > Len(s) - pad THEN s[i] = "=" ELSE IsBase64Char(s[i])

IsMalformedBase64(s) == Truthy(s) /\ ~IsWellFormedBase64(s)

\* C8 as stated: under a malformed base64 GSA_BASE64, every sheets_append_rows
\* request that carries rows is answered 500 with the decoding message, and no
\* append call is sent.
C8_MalformedCredentialFailsDecoding ==
  IsMalformedBase64(GSA_BASE64) =>
    /\ appendLog = <<>>
    /\ AppendCalls = {}
    /\ (resp.endpoint = "sheets_append_rows" /\ resp.request.is = "array") =>
         (resp.status = 500 /\ resp.error = "Failed to decode or parse GSA_BASE64: ")

\* C9 as stated: at most one browser is ever launched, every page is opened
\* on the browser fetchHTML.browser holds, and no launched browser is other
\* than the one fetchHTML.browser holds.
C9_SingleSharedBrowser ==
  /\ Cardinality(launched) <= 1
  /\ \A pg \in pages : pg.on = browser
  /\ \A b \in launched : b = browser

\* the positions of fetchHTML at which the call has its page open
PageOpen == {"goto", "content", "close", "closeInCatch"}

\* C10: an open page belongs to a call of fetchHTML that is between its
\* newPage and the end of its page.close, on the success path and on the
\* failure path; so with no render request under way no page is open; and
\* once a browser is launched fetchHTML.browser holds a launched browser,
\* after a failed render too.
C10_PagesClosedByTheirCall ==
  /\ \A pg \in pages :
       /\ procs[pg.owner].pc \in PageOpen
       /\ procs[pg.owner].on = pg.on
  /\ RenderCalls = {} => pages = {}
  /\ launched # {} => browser \in launched

\* C10 witness: a navigation failed, its call closed its page and answered
\* 500; no request is under way, no page is open, the browser is still held
C10_Witness ==
  /\ resp.endpoint = "fetch_html"
  /\ resp.status = 500
  /\ resp.error = "Navigation timeout of 60000 ms exceeded"
  /\ RenderCalls = {}
  /\ pages = {}
  /\ browser \in launched

====
